---- MODULE Spec2Model ----
(***************************************************************************)
(* A state-machine model of src/index.tsx, the voice-guided recipe viewer: *)
(* the four views and their visibility flags, the recipe session           *)
(* (recipeSteps, currentStepIndex), the recipe fetch with its outcomes,    *)
(* the error view with its recovery button, and the speech queue.          *)
(*                                                                         *)
(* Every event handler of the source is one action.  Handlers can run      *)
(* whenever they are registered: the source has no guard that ties a       *)
(* handler to the visibility of its control.  The variable offView records *)
(* whether some control was ever activated while its view was hidden, so   *)
(* that statements about visibility-gated use can be made.                 *)
(***************************************************************************)
EXTENDS Integers, Sequences, FiniteSets, TLC

VARIABLES
    pc,               \* "load" before initialize() has run, "ready" after
    apiKey,           \* environment: process.env.API_KEY is set
    speechSupported,  \* environment: 'speechSynthesis' in window
    listeners,        \* the five event listeners are registered
    hidden,           \* view -> its element carries the class 'hidden'
    errorChildren,    \* child nodes of errorMessageDiv
    dishValue,        \* dishInput.value, a sequence of characters
    recipeSteps,      \* the step list
    currentStepIndex, \* 0-based index into recipeSteps
    stepText,         \* recipeStepText.textContent
    prevDisabled,     \* prevStepBtn.disabled
    nextDisabled,     \* nextStepBtn.disabled
    pending,          \* dish names of the requests in flight, in issue order
    speechQueue,      \* utterances queued or playing in speechSynthesis
    last,             \* observer: the event that produced this state
    offView           \* observer: a control was activated while hidden

vars == <<pc, apiKey, speechSupported, listeners, hidden, errorChildren,
          dishValue, recipeSteps, currentStepIndex, stepText, prevDisabled,
          nextDisabled, pending, speechQueue, last, offView>>

---------------------------------------------------------------------------
(* Bounds of the model *)

MaxSteps == 3
MaxPending == 2

---------------------------------------------------------------------------
(* Values *)

Views == {"input", "recipe", "loading", "error"}

\* The step texts the service answers with, and the step arrays made of
\* them: every run of consecutive texts of at most MaxSteps steps, the
\* empty array included.
Cookbook == <<"Crack eggs", "Whisk", "Cook", "Serve", "Eat">>

StepTexts == {Cookbook[k] : k \in 1..Len(Cookbook)}

StepLists == {SubSeq(Cookbook, i, j) : i, j \in 1..MaxSteps}

WhiteSpace == {" "}

DishInputs == {<<>>, <<" ">>, <<"a">>, <<" ", "a", " ">>}

Undefined == "undefined"

NoText == ""

\* What the awaited request can produce: a rejection, a response whose text
\* does not parse, JSON null, an object without a steps field, or an object
\* with a steps array (possibly empty).
Outcomes ==
    [kind : {"rejected", "unparseable", "null", "noSteps"}, steps : {<<>>}]
        \cup [kind : {"steps"}, steps : StepLists]

NoOutcome == [kind |-> "none", steps |-> <<>>]

VisibleViews == {v \in Views : ~hidden[v]}

OnlyVisible(v) == VisibleViews = {v}

\* The record kept in last: the handler that ran, the outcome it was given,
\* the utterances it handed to speechSynthesis.speak, whether it ended in an
\* uncaught exception, and the index, list length and visible views it
\* started from.
Event(op, outcome, spoken, threw) ==
    [op |-> op, outcome |-> outcome, spoken |-> spoken, threw |-> threw,
     from |-> [index |-> currentStepIndex, len |-> Len(recipeSteps),
               views |-> VisibleViews]]

---------------------------------------------------------------------------
(* Pure helpers *)

RECURSIVE TrimStart(_)
TrimStart(s) ==
    IF s = <<>> THEN s
    ELSE IF Head(s) \in WhiteSpace THEN TrimStart(Tail(s)) ELSE s

RECURSIVE TrimEnd(_)
TrimEnd(s) ==
    IF s = <<>> THEN s
    ELSE IF s[Len(s)] \in WhiteSpace THEN TrimEnd(SubSeq(s, 1, Len(s) - 1)) ELSE s

\* handleFormSubmit reading dishInput.value without trim()
TrimNothing(s) == s

\* String.prototype.trim
Trim(s) == TrimEnd(TrimStart(s))

\* recipeSteps[i] of the source: 0-based, undefined out of range
StepAt(steps, i) ==
    IF i >= 0 /\ i < Len(steps) THEN steps[i + 1] ELSE Undefined

\* showView without the four classList.add calls
ShowViewNoHide(viewName) == [hidden EXCEPT ![viewName] = FALSE]

\* element.classList.add('hidden') and element.classList.remove('hidden')
AddHidden(flags, v) == [flags EXCEPT ![v] = TRUE]
RemoveHidden(flags, v) == [flags EXCEPT ![v] = FALSE]

\* showView as a function of the flags it finds: all four get 'hidden',
\* then viewName loses it
ShowViewOn(flags, viewName) ==
    LET allHidden ==
            AddHidden(AddHidden(AddHidden(AddHidden(flags, "input"),
                                          "recipe"), "loading"), "error")
    IN RemoveHidden(allHidden, viewName)

\* showView(viewName) on the page
ShowView(viewName) == ShowViewOn(hidden, viewName)

\* the view each control sits in
ControlView(op) ==
    CASE op \in {"type", "submit"} -> "input"
      [] op \in {"next", "prev", "repeat", "startOver"} -> "recipe"
      [] op = "tryAgain" -> "error"

Activated(op) == offView' = (offView \/ hidden[ControlView(op)])

\* the message getRecipe's catch block hands to showError
ErrorMessage(outcome) ==
    CASE outcome.kind = "rejected" -> "Failed to fetch"
      [] outcome.kind = "unparseable" -> "Unexpected token in JSON"
      [] OTHER -> "Could not find a recipe for that dish."

ParagraphNode(message) == [tag |-> "p", text |-> message]
TextNode(message) == [tag |-> "#text", text |-> message]
BackButton == [tag |-> "button", text |-> "Try Again"]

\* showError without its recovery button
ErrorChildrenAfterNoButton(children, message) == <<ParagraphNode(message)>>

\* showError appending to what the element already holds
ErrorChildrenAfterNoClear(children, message) ==
    Append(Append(children, ParagraphNode(message)), BackButton)

\* the children of errorMessageDiv after showError(message)
ErrorChildrenAfter(children, message) ==
    LET afterTextContent == <<TextNode(message)>>
        cleared == SubSeq(afterTextContent, 1, 0)
    IN Append(Append(cleared, ParagraphNode(message)), BackButton)

HasBackButton(children) == \E k \in 1..Len(children) : children[k] = BackButton

\* the success test without its length check
LoadOkAcceptEmpty(outcome) == outcome.kind = "steps"

\* recipeData && recipeData.steps && recipeData.steps.length > 0
LoadOk(outcome) == outcome.kind = "steps" /\ Len(outcome.steps) > 0

\* handleNextStep's guard off by one
CanNextOffByOne(index, steps) == index < Len(steps)

CanNext(index, steps) == index < Len(steps) - 1

\* handlePrevStep's guard off by one
CanPrevOffByOne(index) == index >= 0

CanPrev(index) == index > 0

\* speak without speechSynthesis.cancel()
QueueAfterSpeakNoCancel(queue, text) == Append(queue, text)

\* speechSynthesis.cancel(); speechSynthesis.speak(utterance)
QueueAfterSpeak(queue, text) ==
    LET cancelled == <<>>
    IN Append(cancelled, text)

RemoveAt(s, i) == SubSeq(s, 1, i - 1) \o SubSeq(s, i + 1, Len(s))

---------------------------------------------------------------------------
(* Initial state: the page is loaded, initialize() has not yet run.  The   *)
(* markup decides the initial classes; a button starts enabled.            *)

Init ==
    /\ pc = "load"
    /\ apiKey \in BOOLEAN
    /\ speechSupported \in BOOLEAN
    /\ listeners = FALSE
    /\ hidden \in [Views -> BOOLEAN]
    /\ errorChildren = <<>>
    /\ dishValue = <<>>
    /\ recipeSteps = <<>>
    /\ currentStepIndex = 0
    /\ stepText = NoText
    /\ prevDisabled = FALSE
    /\ nextDisabled = FALSE
    /\ pending = <<>>
    /\ speechQueue = <<>>
    /\ last = [op |-> "none", outcome |-> NoOutcome, spoken |-> <<>>,
               threw |-> FALSE,
               from |-> [index |-> 0, len |-> 0, views |-> {}]]
    /\ offView = FALSE

---------------------------------------------------------------------------
(* Steps shared by several handlers *)

\* showError(message)
ShowError(message) ==
    /\ hidden' = ShowView("error")
    /\ errorChildren' = ErrorChildrenAfter(errorChildren, message)

\* updateRecipeStepUI() on the step list and index just assigned; op and
\* outcome name the event being recorded
UpdateRecipeStepUI(steps, index, op, outcome) ==
    IF Len(steps) = 0
    THEN /\ UNCHANGED <<stepText, prevDisabled, nextDisabled, speechQueue>>
         /\ last' = Event(op, outcome, <<>>, FALSE)
    ELSE LET currentStep == StepAt(steps, index)
         IN /\ stepText' = currentStep
            /\ prevDisabled' = (index = 0)
            /\ nextDisabled' = (index = Len(steps) - 1)
            /\ IF speechSupported
               THEN /\ speechQueue' = QueueAfterSpeak(speechQueue, currentStep)
                    /\ last' = Event(op, outcome, <<currentStep>>, FALSE)
               ELSE /\ UNCHANGED speechQueue
                    /\ last' = Event(op, outcome, <<>>, FALSE)

---------------------------------------------------------------------------
(* Actions *)

\* initialize()
Initialize ==
    /\ pc = "load"
    /\ pc' = "ready"
    /\ IF ~apiKey
       THEN /\ ShowError("API_KEY is not configured.")
            /\ UNCHANGED listeners
       ELSE /\ listeners' = TRUE
            /\ hidden' = ShowView("input")
            /\ UNCHANGED errorChildren
    /\ last' = Event("initialize", NoOutcome, <<>>, FALSE)
    /\ UNCHANGED <<apiKey, speechSupported, dishValue, recipeSteps,
                   currentStepIndex, stepText, prevDisabled, nextDisabled,
                   pending, speechQueue, offView>>

\* the user edits the dish field
TypeDish(v) ==
    /\ pc = "ready"
    /\ dishValue' = v
    /\ Activated("type")
    /\ last' = Event("type", NoOutcome, <<>>, FALSE)
    /\ UNCHANGED <<pc, apiKey, speechSupported, listeners, hidden,
                   errorChildren, recipeSteps, currentStepIndex, stepText,
                   prevDisabled, nextDisabled, pending, speechQueue>>

\* getRecipe without showView('loading')
GetRecipeStartNoSpinner(dishName) ==
    /\ pending' = Append(pending, dishName)
    /\ UNCHANGED hidden

\* getRecipe(dishName) up to its await
GetRecipeStart(dishName) ==
    /\ hidden' = ShowView("loading")
    /\ pending' = Append(pending, dishName)

\* handleFormSubmit ignoring a submission while a request is pending
HandleFormSubmitGuarded ==
    /\ pc = "ready"
    /\ listeners
    /\ Len(pending) < MaxPending
    /\ LET dishName == Trim(dishValue)
       IN IF dishName # <<>> /\ pending = <<>>
          THEN GetRecipeStart(dishName)
          ELSE UNCHANGED <<hidden, pending>>
    /\ Activated("submit")
    /\ last' = Event("submit", NoOutcome, <<>>, FALSE)
    /\ UNCHANGED <<pc, apiKey, speechSupported, listeners, errorChildren,
                   dishValue, recipeSteps, currentStepIndex, stepText,
                   prevDisabled, nextDisabled, speechQueue>>

\* handleFormSubmit
HandleFormSubmit ==
    /\ pc = "ready"
    /\ listeners
    /\ Len(pending) < MaxPending
    /\ LET dishName == Trim(dishValue)
       IN IF dishName # <<>>
          THEN GetRecipeStart(dishName)
          ELSE UNCHANGED <<hidden, pending>>
    /\ Activated("submit")
    /\ last' = Event("submit", NoOutcome, <<>>, FALSE)
    /\ UNCHANGED <<pc, apiKey, speechSupported, listeners, errorChildren,
                   dishValue, recipeSteps, currentStepIndex, stepText,
                   prevDisabled, nextDisabled, speechQueue>>

\* the success branch without currentStepIndex = 0
LoadKeepIndex(outcome) ==
    /\ recipeSteps' = outcome.steps
    /\ UNCHANGED currentStepIndex
    /\ UpdateRecipeStepUI(outcome.steps, currentStepIndex, "fetchDone", outcome)
    /\ hidden' = ShowView("recipe")

\* the success branch of getRecipe
Load(outcome) ==
    /\ recipeSteps' = outcome.steps
    /\ currentStepIndex' = 0
    /\ UpdateRecipeStepUI(outcome.steps, 0, "fetchDone", outcome)
    /\ hidden' = ShowView("recipe")

\* getRecipe after its await: request i settles with the given outcome
FetchCompletes(i, outcome) ==
    /\ pc = "ready"
    /\ i \in 1..Len(pending)
    /\ pending' = RemoveAt(pending, i)
    /\ IF LoadOk(outcome)
       THEN /\ Load(outcome)
            /\ UNCHANGED errorChildren
       ELSE /\ ShowError(ErrorMessage(outcome))
            /\ last' = Event("fetchDone", outcome, <<>>, FALSE)
            /\ UNCHANGED <<recipeSteps, currentStepIndex, stepText,
                           prevDisabled, nextDisabled, speechQueue>>
    /\ UNCHANGED <<pc, apiKey, speechSupported, listeners, dishValue, offView>>

\* handleNextStep
HandleNextStep ==
    /\ pc = "ready"
    /\ listeners
    /\ IF CanNext(currentStepIndex, recipeSteps)
       THEN /\ currentStepIndex' = currentStepIndex + 1
            /\ UpdateRecipeStepUI(recipeSteps, currentStepIndex + 1, "next", NoOutcome)
       ELSE /\ last' = Event("next", NoOutcome, <<>>, FALSE)
            /\ UNCHANGED <<currentStepIndex, stepText, prevDisabled,
                           nextDisabled, speechQueue>>
    /\ Activated("next")
    /\ UNCHANGED <<pc, apiKey, speechSupported, listeners, hidden,
                   errorChildren, dishValue, recipeSteps, pending>>

\* handlePrevStep
HandlePrevStep ==
    /\ pc = "ready"
    /\ listeners
    /\ IF CanPrev(currentStepIndex)
       THEN /\ currentStepIndex' = currentStepIndex - 1
            /\ UpdateRecipeStepUI(recipeSteps, currentStepIndex - 1, "prev", NoOutcome)
       ELSE /\ last' = Event("prev", NoOutcome, <<>>, FALSE)
            /\ UNCHANGED <<currentStepIndex, stepText, prevDisabled,
                           nextDisabled, speechQueue>>
    /\ Activated("prev")
    /\ UNCHANGED <<pc, apiKey, speechSupported, listeners, hidden,
                   errorChildren, dishValue, recipeSteps, pending>>

\* handleRepeatStep restarting the recipe instead of re-reading the step
HandleRepeatStepRestart ==
    /\ pc = "ready"
    /\ listeners
    /\ currentStepIndex' = 0
    /\ UpdateRecipeStepUI(recipeSteps, 0, "repeat", NoOutcome)
    /\ Activated("repeat")
    /\ UNCHANGED <<pc, apiKey, speechSupported, listeners, hidden,
                   errorChildren, dishValue, recipeSteps, pending>>

\* handleRepeatStep
HandleRepeatStep ==
    /\ pc = "ready"
    /\ listeners
    /\ UpdateRecipeStepUI(recipeSteps, currentStepIndex, "repeat", NoOutcome)
    /\ Activated("repeat")
    /\ UNCHANGED <<pc, apiKey, speechSupported, listeners, hidden,
                   errorChildren, dishValue, recipeSteps, currentStepIndex,
                   pending>>

\* handleStartOver without speechSynthesis.cancel()
HandleStartOverNoCancel ==
    /\ pc = "ready"
    /\ listeners
    /\ recipeSteps' = <<>>
    /\ currentStepIndex' = 0
    /\ dishValue' = <<>>
    /\ hidden' = ShowView("input")
    /\ last' = Event("startOver", NoOutcome, <<>>, FALSE)
    /\ Activated("startOver")
    /\ UNCHANGED <<pc, apiKey, speechSupported, listeners, errorChildren,
                   stepText, prevDisabled, nextDisabled, pending,
                   speechQueue>>

\* handleStartOver: speechSynthesis.cancel() is called unconditionally and
\* throws a ReferenceError where the facility is absent, before showView
HandleStartOver ==
    /\ pc = "ready"
    /\ listeners
    /\ recipeSteps' = <<>>
    /\ currentStepIndex' = 0
    /\ dishValue' = <<>>
    /\ IF speechSupported
       THEN /\ speechQueue' = <<>>
            /\ hidden' = ShowView("input")
            /\ last' = Event("startOver", NoOutcome, <<>>, FALSE)
       ELSE /\ UNCHANGED <<speechQueue, hidden>>
            /\ last' = Event("startOver", NoOutcome, <<>>, TRUE)
    /\ Activated("startOver")
    /\ UNCHANGED <<pc, apiKey, speechSupported, listeners, errorChildren,
                   stepText, prevDisabled, nextDisabled, pending>>

\* backButton.onclick, the recovery control showError creates
TryAgain ==
    /\ pc = "ready"
    /\ HasBackButton(errorChildren)
    /\ hidden' = ShowView("input")
    /\ errorChildren' = <<>>
    /\ Activated("tryAgain")
    /\ last' = Event("tryAgain", NoOutcome, <<>>, FALSE)
    /\ UNCHANGED <<pc, apiKey, speechSupported, listeners, dishValue,
                   recipeSteps, currentStepIndex, stepText, prevDisabled,
                   nextDisabled, pending, speechQueue>>

\* the platform finishes playing the utterance at the head of its queue
UtteranceEnds ==
    /\ pc = "ready"
    /\ speechQueue # <<>>
    /\ speechQueue' = Tail(speechQueue)
    /\ last' = Event("utteranceEnd", NoOutcome, <<>>, FALSE)
    /\ UNCHANGED <<pc, apiKey, speechSupported, listeners, hidden,
                   errorChildren, dishValue, recipeSteps, currentStepIndex,
                   stepText, prevDisabled, nextDisabled, pending, offView>>

Settle == \E i \in 1..MaxPending, outcome \in Outcomes : FetchCompletes(i, outcome)

Next ==
    \/ Initialize
    \/ \E v \in DishInputs : TypeDish(v)
    \/ HandleFormSubmit
    \/ Settle
    \/ HandleNextStep
    \/ HandlePrevStep
    \/ HandleRepeatStep
    \/ HandleStartOver
    \/ TryAgain
    \/ UtteranceEnds

Spec == Init /\ [][Next]_vars

\* Every request eventually resolves or rejects, and the page's start-up
\* script runs.
FairSpec == Spec /\ WF_vars(Initialize) /\ WF_vars(Settle)

---------------------------------------------------------------------------
(* Vocabulary of the properties *)

\* a fetch outcome that the source treats as a failure
Failed(outcome) ==
    \/ outcome.kind \in {"rejected", "unparseable", "null", "noSteps"}
    \/ outcome.kind = "steps" /\ outcome.steps = <<>>

\* a fetch outcome carrying a step array of length >= 1
Loaded(outcome) == outcome.kind = "steps" /\ Len(outcome.steps) >= 1

NonEmptySubmit(e, dish) == e.op = "submit" /\ Trim(dish) # <<>>

\* the events the spec calls successful transitions: a load, a next() or
\* previous() away from the boundary, a repeat()
ReadAloudEvent(e) ==
    \/ e.op = "fetchDone" /\ Loaded(e.outcome)
    \/ e.op = "next" /\ e.from.index < e.from.len - 1
    \/ e.op = "prev" /\ e.from.index > 0
    \/ e.op = "repeat"

\* initialize() has run and v is the one visible view
Showing(v) == pc = "ready" /\ OnlyVisible(v)

\* a handler that left everything the user can observe as it was
NoEffect ==
    /\ UNCHANGED <<currentStepIndex, recipeSteps, hidden, stepText,
                   prevDisabled, nextDisabled, speechQueue>>
    /\ last'.spoken = <<>>

---------------------------------------------------------------------------
(* C1 *)

\* C1 as stated: every submission of a dish name that is non-empty after
\* trimming shows Loading in the same step; from Loading the view never goes
\* back to Input directly; Recipe and Error never follow one another; and
\* Loading always leads to Recipe or Error.
C1_SubmitThenExactlyOneResult ==
    /\ [][NonEmptySubmit(last', dishValue') => Showing("loading")']_vars
    /\ [][Showing("loading") => ~Showing("input")']_vars
    /\ [][Showing("recipe") => ~Showing("error")']_vars
    /\ [][Showing("error") => ~Showing("recipe")']_vars
    /\ (Showing("loading") ~> (Showing("recipe") \/ Showing("error")))

\* C1 amended: the same, for the runs in which every control is activated
\* only while the view that holds it is visible.  The submission shows
\* Loading in the same step and Loading leads to Recipe or Error in every
\* run; the view leaves Loading only for Recipe or Error, and Recipe and
\* Error never follow one another, as long as no control was activated
\* while hidden.
C1_GatedSubmitThenExactlyOneResult ==
    /\ [][NonEmptySubmit(last', dishValue') => Showing("loading")']_vars
    /\ [][(Showing("loading") /\ ~offView')
            => (Showing("loading") \/ Showing("recipe") \/ Showing("error"))']_vars
    /\ [][(Showing("recipe") /\ ~offView') => ~Showing("error")']_vars
    /\ [][(Showing("error") /\ ~offView') => ~Showing("recipe")']_vars
    /\ (Showing("loading") ~> (Showing("recipe") \/ Showing("error")))

\* a non-empty dish name was just submitted from the visible form
C1_Submitted ==
    /\ NonEmptySubmit(last, dishValue)
    /\ ~offView
    /\ last.from.views = {"input"}
    /\ pending # <<>>

---------------------------------------------------------------------------
(* C2 *)

\* C2: in every reachable state the index is within the step list, and is 0
\* when the list is empty.
C2_IndexInRange ==
    IF recipeSteps = <<>>
    THEN currentStepIndex = 0
    ELSE currentStepIndex >= 0 /\ currentStepIndex < Len(recipeSteps)

\* a successful fetch replaced the list by one too short for the old index
C2_ShorterListLoaded ==
    /\ last.op = "fetchDone"
    /\ Loaded(last.outcome)
    /\ Len(recipeSteps) < last.from.len
    /\ last.from.index >= Len(recipeSteps)

---------------------------------------------------------------------------
(* C3 *)

\* the argument of the showView call the event made last, if it made one
Shown(e, dish) ==
    CASE e.op = "initialize" -> IF apiKey THEN {"input"} ELSE {"error"}
      [] NonEmptySubmit(e, dish) -> {"loading"}
      [] e.op = "fetchDone" -> IF Loaded(e.outcome) THEN {"recipe"} ELSE {"error"}
      [] e.op = "startOver" /\ ~e.threw -> {"input"}
      [] e.op = "tryAgain" -> {"input"}
      [] OTHER -> {}

\* C3: once initialize() has run exactly one of the four views is visible,
\* and every showView(v) leaves exactly v visible.
C3_ExactlyOneViewVisible ==
    pc = "ready" =>
        /\ Cardinality(VisibleViews) = 1
        /\ \A v \in Shown(last, dishValue) : VisibleViews = {v}

\* initialize() ran without a credential, from markup that showed no single
\* view, and left the Error view alone visible
C3_MissingCredentialShowsError ==
    /\ pc = "ready"
    /\ ~apiKey
    /\ last.op = "initialize"
    /\ Cardinality(last.from.views) # 1
    /\ VisibleViews = {"error"}

---------------------------------------------------------------------------
(* C4 *)

\* C4 as stated: next() at the last index and previous() at index 0 change
\* nothing; otherwise next() adds one and previous() subtracts one, leaving
\* list and view alone.
C4_NextPrevBoundaries ==
    [][/\ last'.op = "next" =>
            IF currentStepIndex = Len(recipeSteps) - 1
            THEN NoEffect
            ELSE /\ currentStepIndex' = currentStepIndex + 1
                 /\ UNCHANGED <<recipeSteps, hidden>>
       /\ last'.op = "prev" =>
            IF currentStepIndex = 0
            THEN NoEffect
            ELSE /\ currentStepIndex' = currentStepIndex - 1
                 /\ UNCHANGED <<recipeSteps, hidden>>]_vars

\* C4 amended: next() at the last index or on an empty list, and previous()
\* at index 0, change nothing; otherwise next() adds one and previous()
\* subtracts one, leaving list and view alone, and the index stays within
\* the list.
C4_NextPrevBoundariesNonEmpty ==
    [][/\ last'.op = "next" =>
            IF recipeSteps = <<>> \/ currentStepIndex = Len(recipeSteps) - 1
            THEN NoEffect
            ELSE /\ currentStepIndex' = currentStepIndex + 1
                 /\ currentStepIndex' < Len(recipeSteps)
                 /\ UNCHANGED <<recipeSteps, hidden>>
       /\ last'.op = "prev" =>
            IF currentStepIndex = 0
            THEN NoEffect
            ELSE /\ currentStepIndex' = currentStepIndex - 1
                 /\ currentStepIndex' >= 0
                 /\ UNCHANGED <<recipeSteps, hidden>>]_vars

\* next() was just called at the last index of a list of several steps
C4_NextAtLastIndex ==
    /\ last.op = "next"
    /\ last.from.len >= 2
    /\ last.from.index = last.from.len - 1
    /\ currentStepIndex = last.from.index
    /\ last.spoken = <<>>

---------------------------------------------------------------------------
(* C5 *)

\* C5: a fetch that completes with a step array of length >= 1 replaces the
\* step list by that array, sets the index to 0 and selects the Recipe view.
C5_LoadResetsIndexAndShowsRecipe ==
    (last.op = "fetchDone" /\ Loaded(last.outcome)) =>
        /\ recipeSteps = last.outcome.steps
        /\ currentStepIndex = 0
        /\ OnlyVisible("recipe")

\* a load arrived while another view than Loading was showing, over a list
\* whose index had advanced
C5_LoadOverAdvancedSession ==
    /\ last.op = "fetchDone"
    /\ Loaded(last.outcome)
    /\ last.from.index > 0
    /\ last.from.views = {"recipe"}
    /\ last.from.len # Len(recipeSteps)

---------------------------------------------------------------------------
(* C6 *)

\* C6: every failed fetch outcome ends in the Error view with its recovery
\* button, whatever the kind of failure, and changes neither the step list
\* nor the index nor anything else of the session.
C6_FailureShowsErrorKeepsSession ==
    [][(last'.op = "fetchDone" /\ Failed(last'.outcome)) =>
            /\ OnlyVisible("error")'
            /\ ~OnlyVisible("recipe")'
            /\ errorChildren' =
                 <<ParagraphNode(ErrorMessage(last'.outcome)), BackButton>>
            /\ UNCHANGED <<recipeSteps, currentStepIndex, stepText,
                           prevDisabled, nextDisabled, speechQueue,
                           dishValue>>]_vars

\* an empty steps array arrived while a step list was held
C6_EmptyArrayOverHeldList ==
    /\ last.op = "fetchDone"
    /\ last.outcome.kind = "steps"
    /\ last.outcome.steps = <<>>
    /\ recipeSteps # <<>>
    /\ currentStepIndex > 0
    /\ OnlyVisible("error")

---------------------------------------------------------------------------
(* C7 *)

\* C7: start over, activated in the visible Recipe view, leaves the Input
\* view showing, an empty step list, index 0 and an empty dish field,
\* whether or not the speech facility is present.
C7_StartOverReturnsToInput ==
    (last.op = "startOver" /\ last.from.views = {"recipe"}) =>
        /\ OnlyVisible("input")
        /\ recipeSteps = <<>>
        /\ currentStepIndex = 0
        /\ dishValue = <<>>

---------------------------------------------------------------------------
(* C8 *)

\* C8 as stated: each load, each next() or previous() away from the
\* boundary and each repeat() hands exactly one utterance to the speech
\* facility, the step at the resulting index, after cancelling what was
\* queued; at most one utterance is ever queued, the one requested last.
C8_OneReadAloudPerTransition ==
    /\ ReadAloudEvent(last) =>
          /\ last.spoken = <<StepAt(recipeSteps, currentStepIndex)>>
          /\ speechQueue = last.spoken
    /\ Len(speechQueue) <= 1
    /\ speechQueue # <<>> => speechQueue = <<stepText>>

\* C8 amended: the same where the speech facility is present and the step
\* list is non-empty; a repeat() on an empty list and any transition without
\* the speech facility hand nothing to it.
C8_OneReadAloudWhereSpeechAndSteps ==
    /\ ReadAloudEvent(last) =>
          IF speechSupported /\ recipeSteps # <<>>
          THEN /\ last.spoken = <<StepAt(recipeSteps, currentStepIndex)>>
               /\ StepAt(recipeSteps, currentStepIndex) \in StepTexts
               /\ speechQueue = last.spoken
          ELSE last.spoken = <<>>
    /\ ~speechSupported => speechQueue = <<>>
    /\ Len(speechQueue) <= 1
    /\ speechQueue # <<>> => speechQueue = <<stepText>>

\* previous() just moved back and its step is the one utterance queued
C8_PrevReadAloud ==
    /\ last.op = "prev"
    /\ last.from.index = 2
    /\ currentStepIndex = 1
    /\ speechQueue = <<StepAt(recipeSteps, 1)>>
    /\ last.spoken = speechQueue

---------------------------------------------------------------------------
(* C9 *)

\* C9: repeat() changes neither the index nor the step list nor the view
\* nor what is displayed; on a non-empty list it hands the current step to
\* the speech facility, on an empty list it does nothing at all.
C9_RepeatKeepsState ==
    [][last'.op = "repeat" =>
          /\ UNCHANGED <<currentStepIndex, recipeSteps, hidden, stepText,
                         prevDisabled, nextDisabled, errorChildren,
                         dishValue, pending, listeners>>
          /\ recipeSteps = <<>> => NoEffect
          /\ (recipeSteps # <<>> /\ speechSupported) =>
                 /\ last'.spoken = <<StepAt(recipeSteps, currentStepIndex)>>
                 /\ speechQueue' = last'.spoken]_vars

\* repeat() was just called on a step past the first
C9_RepeatedLaterStep ==
    /\ last.op = "repeat"
    /\ currentStepIndex > 0
    /\ last.from.index = currentStepIndex
    /\ last.spoken = <<StepAt(recipeSteps, currentStepIndex)>>

---------------------------------------------------------------------------
(* C10 *)

\* C10: a failed fetch leaves the recovery button in the Error view, and
\* activating it right then shows the Input view with the dish field empty,
\* the step list empty and the index 0.
C10_RecoveryClearsState ==
    [][(last.op = "fetchDone" /\ Failed(last.outcome)) =>
          /\ HasBackButton(errorChildren)
          /\ last'.op = "tryAgain" =>
                /\ OnlyVisible("input")'
                /\ dishValue' = <<>>
                /\ recipeSteps' = <<>>
                /\ currentStepIndex' = 0]_vars

---------------------------------------------------------------------------
(* C11 *)

\* a submission of the dish name now in the field would start a fetch and
\* show Loading
SubmitWouldLoad ==
    ENABLED (/\ HandleFormSubmit
             /\ OnlyVisible("loading")'
             /\ Len(pending') = Len(pending) + 1)

\* a visible form holding a non-empty dish name, with room for a request
ReadyToSubmit ==
    /\ Showing("input")
    /\ Trim(dishValue) # <<>>
    /\ Len(pending) < MaxPending

\* C11 as stated: in every Error-view state, whatever caused it, the
\* recovery control can be activated and yields the Input view, and from the
\* Input view a submission of a non-empty dish name starts a fetch and shows
\* Loading.
C11_EveryErrorRecoverable ==
    /\ Showing("error") => ENABLED (TryAgain /\ OnlyVisible("input")')
    /\ ReadyToSubmit => SubmitWouldLoad

\* C11 amended: in every Error-view state the recovery control yields the
\* Input view; where the credential is present a submission of a non-empty
\* dish name then starts a fetch and shows Loading; where it is missing no
\* handler is registered, no submission starts a fetch and Loading is never
\* shown.
C11_ErrorRecoverableWithCredential ==
    /\ Showing("error") => ENABLED (TryAgain /\ OnlyVisible("input")')
    /\ (ReadyToSubmit /\ apiKey) => SubmitWouldLoad
    /\ (pc = "ready" /\ ~apiKey) =>
          /\ ~ENABLED HandleFormSubmit
          /\ pending = <<>>
          /\ ~OnlyVisible("loading")

\* the recovery control was just activated after a fetch failure, and the
\* form shows again holding the dish name
C11_RecoveredFromFetchFailure ==
    /\ last.op = "tryAgain"
    /\ last.from.views = {"error"}
    /\ apiKey
    /\ ReadyToSubmit
    /\ ~offView

---------------------------------------------------------------------------
(* C12 *)

\* C12: as long as every control is activated only while its view is
\* visible, at most one request is pending, one is pending only while
\* Loading shows, and every fetch completion arrives in the Loading view.
C12_OneFetchInFlightWhenGated ==
    ~offView =>
        /\ Len(pending) <= 1
        /\ pending # <<>> => Showing("loading")
        /\ last.op = "fetchDone" => last.from.views = {"loading"}

\* a completion just arrived in the Loading view, with nothing else pending
C12_CompletionInLoading ==
    /\ last.op = "fetchDone"
    /\ ~offView
    /\ last.from.views = {"loading"}
    /\ pending = <<>>

---------------------------------------------------------------------------
(* C13 *)

\* C13: whenever the Recipe view shows, the displayed text is the step at
\* the current index, previous is disabled exactly at index 0 and next is
\* disabled exactly at the last index.
C13_RecipeViewShowsCurrentStep ==
    Showing("recipe") =>
        /\ stepText = StepAt(recipeSteps, currentStepIndex)
        /\ prevDisabled = (currentStepIndex = 0)
        /\ nextDisabled = (currentStepIndex = Len(recipeSteps) - 1)

---------------------------------------------------------------------------
(* C14 *)

NumBackButtons(children) ==
    Cardinality({k \in 1..Len(children) : children[k] = BackButton})

\* the event called showError
CalledShowError(e) ==
    \/ e.op = "fetchDone" /\ Failed(e.outcome)
    \/ e.op = "initialize" /\ ~apiKey

\* C14: showView(v) applied twice gives the flags it gives applied once,
\* with exactly v visible; after every showError the Error view holds
\* exactly one recovery button, and never more than one; activating it
\* empties the error content and shows the Input view, changing nothing
\* else.
C14_ShowViewIdempotentOneButton ==
    /\ [](\A v \in Views :
            /\ ShowViewOn(ShowViewOn(hidden, v), v) = ShowViewOn(hidden, v)
            /\ {w \in Views : ~ShowViewOn(hidden, v)[w]} = {v})
    /\ [](NumBackButtons(errorChildren) <= 1)
    /\ [](CalledShowError(last) =>
            /\ NumBackButtons(errorChildren) = 1
            /\ OnlyVisible("error"))
    /\ [][last'.op = "tryAgain" =>
            /\ errorChildren' = <<>>
            /\ OnlyVisible("input")'
            /\ UNCHANGED <<dishValue, recipeSteps, currentStepIndex,
                           stepText, prevDisabled, nextDisabled, pending,
                           speechQueue, listeners>>]_vars

\* showError was just called while the Error view of an earlier showError
\* was still showing
C14_ShowErrorCalledAgain ==
    /\ last.op = "fetchDone"
    /\ Failed(last.outcome)
    /\ last.from.views = {"error"}
    /\ NumBackButtons(errorChildren) = 1
    /\ Len(errorChildren) = 2

---------------------------------------------------------------------------
(* C15 *)

\* C15: handleFormSubmit has no in-flight guard: every submission of a
\* non-empty dish name adds a request to those pending and shows Loading,
\* also while requests are pending; and every completion is applied as it
\* arrives, whatever view, list and index it finds: a step array of length
\* >= 1 becomes the step list at index 0 in the Recipe view, a failure shows
\* the Error view.
C15_NoInFlightGuard ==
    /\ [][NonEmptySubmit(last', dishValue') =>
            /\ pending' = Append(pending, Trim(dishValue))
            /\ OnlyVisible("loading")']_vars
    /\ [][last'.op = "fetchDone" =>
            /\ Len(pending') = Len(pending) - 1
            /\ Loaded(last'.outcome) =>
                  /\ recipeSteps' = last'.outcome.steps
                  /\ currentStepIndex' = 0
                  /\ OnlyVisible("recipe")'
            /\ Failed(last'.outcome) => OnlyVisible("error")']_vars

\* two requests were pending, start over emptied the session and showed
\* Input, and the completion of one of them then loaded its recipe
C15_LateCompletionAfterStartOver ==
    /\ last.op = "fetchDone"
    /\ Loaded(last.outcome)
    /\ last.from.views = {"input"}
    /\ last.from.len = 0
    /\ Len(pending) = 1
    /\ OnlyVisible("recipe")

---------------------------------------------------------------------------
(* C16 *)

\* C16: as long as every control is activated only while its view is
\* visible, the Recipe view shows exactly when the step list is non-empty.
C16_RecipeViewIffSteps ==
    (pc = "ready" /\ ~offView) =>
        (OnlyVisible("recipe") <=> recipeSteps # <<>>)

---------------------------------------------------------------------------
(* C17 *)

\* empty, or white space only
Blank(s) == \A k \in 1..Len(s) : s[k] \in WhiteSpace

\* C17: submitting a dish name that is empty or white space only issues no
\* request and changes neither the view nor the step list, the index, the
\* speech queue or anything displayed.
C17_BlankSubmitIsNoOp ==
    [][(last'.op = "submit" /\ Blank(dishValue)) =>
          /\ UNCHANGED <<pending, hidden, recipeSteps, currentStepIndex,
                         speechQueue, stepText, prevDisabled, nextDisabled,
                         errorChildren, dishValue>>
          /\ last'.spoken = <<>>]_vars

\* a dish name of one space was just submitted from the visible form
C17_WhitespaceSubmitted ==
    /\ last.op = "submit"
    /\ dishValue = <<" ">>
    /\ Showing("input")
    /\ last.from.views = {"input"}
    /\ pending = <<>>

---------------------------------------------------------------------------
(* C18 *)

\* C18: as long as every control is activated only while its view is
\* visible, nothing is queued or playing while Input, Loading or Error
\* shows, and whatever is queued is the step at the current index.
C18_SpeechOnlyInRecipeView ==
    (pc = "ready" /\ ~offView) =>
        /\ ~OnlyVisible("recipe") => speechQueue = <<>>
        /\ \A k \in 1..Len(speechQueue) :
              speechQueue[k] = StepAt(recipeSteps, currentStepIndex)

\* start over was just activated in the Recipe view of a browser that
\* speaks, and Input shows with nothing queued
C18_StartOverSilenced ==
    /\ last.op = "startOver"
    /\ speechSupported
    /\ ~offView
    /\ last.from.views = {"recipe"}
    /\ last.from.index > 0
    /\ Showing("input")
    /\ speechQueue = <<>>

====
